---- MODULE Spec2Model ----
(***************************************************************************)
(* Model of app.py: the Streamlit form (main), the request builder and     *)
(* result persistence (prepare_outpainting_request_with_mask_prompt) and   *)
(* the model invoker (generate_image) of the Titan outpainting example.    *)
(*                                                                         *)
(* Text that is base64 is a sequence of one-character strings, bytes are   *)
(* sequences of integers 0..255, the guidance scale is counted in tenths   *)
(* (the slider's step), and paths and messages are strings.                *)
(***************************************************************************)
EXTENDS Integers, Sequences, FiniteSets, TLC

\* ------------------------------------------------------------------ bounds
\* Script runs (form renderings) of one session.
MaxRuns == 2
\* Seconds the clock may advance past Epoch0 during the session.
MaxTicks == 1
\* Longest source image, in bytes, of the request-builder specification.
MaxLen == 3

\* ------------------------------------------------------- program constants
MaxDim == 1408
MinSeed == 0
MaxSeed == 2147483647
DefaultSeed == 1761198479
MinCfgTenths == 11
MaxCfgTenths == 100
DefaultCfgTenths == 70
NumberOfImages == 1
\* The date in the file's header, 2024-08-20T00:00:00Z, as the clock's start.
Epoch0 == 1724112000

MODEL_ID == "amazon.titan-image-generator-v2:0"

\* ----------------------------------------------------------------- base64
B64Alphabet ==
    << "A","B","C","D","E","F","G","H","I","J","K","L","M","N","O","P",
       "Q","R","S","T","U","V","W","X","Y","Z","a","b","c","d","e","f",
       "g","h","i","j","k","l","m","n","o","p","q","r","s","t","u","v",
       "w","x","y","z","0","1","2","3","4","5","6","7","8","9","+","/" >>

B64Pad == "="

B64Char(v) == B64Alphabet[v + 1]

B64Value(c) == (CHOOSE i \in 1..64 : B64Alphabet[i] = c) - 1

IsB64Char(c) == \E i \in 1..64 : B64Alphabet[i] = c

\* base64.b64encode: three bytes become four characters, the tail is padded.
RECURSIVE B64Encode(_)
B64Encode(bytes) ==
    IF Len(bytes) = 0 THEN << >>
    ELSE IF Len(bytes) = 1 THEN
        << B64Char(bytes[1] \div 4), B64Char((bytes[1] % 4) * 16), B64Pad, B64Pad >>
    ELSE IF Len(bytes) = 2 THEN
        << B64Char(bytes[1] \div 4),
           B64Char((bytes[1] % 4) * 16 + bytes[2] \div 16),
           B64Char((bytes[2] % 16) * 4), B64Pad >>
    ELSE
        << B64Char(bytes[1] \div 4),
           B64Char((bytes[1] % 4) * 16 + bytes[2] \div 16),
           B64Char((bytes[2] % 16) * 4 + bytes[3] \div 64),
           B64Char(bytes[3] % 64) >>
        \o B64Encode(SubSeq(bytes, 4, Len(bytes)))

\* base64.b64decode(s) without validation (binascii.a2b_base64): characters
\* outside the alphabet are skipped, a complete pad sequence ends the input,
\* and an incomplete last quad is "Incorrect padding".
RECURSIVE B64Scan(_, _, _, _, _, _)
B64Scan(text, i, quad_pos, leftchar, pads, out) ==
    IF i > Len(text) THEN
        [ok |-> quad_pos = 0, bytes |-> IF quad_pos = 0 THEN out ELSE << >>]
    ELSE IF text[i] = B64Pad THEN
        IF quad_pos >= 2 /\ quad_pos + pads + 1 >= 4
        THEN [ok |-> TRUE, bytes |-> out]
        ELSE B64Scan(text, i + 1, quad_pos, leftchar,
                     IF quad_pos >= 2 THEN pads + 1 ELSE pads, out)
    ELSE IF ~IsB64Char(text[i]) THEN
        B64Scan(text, i + 1, quad_pos, leftchar, pads, out)
    ELSE
        LET v == B64Value(text[i]) IN
        CASE quad_pos = 0 -> B64Scan(text, i + 1, 1, v, 0, out)
          [] quad_pos = 1 ->
                B64Scan(text, i + 1, 2, v % 16, 0,
                        Append(out, leftchar * 4 + v \div 16))
          [] quad_pos = 2 ->
                B64Scan(text, i + 1, 3, v % 4, 0,
                        Append(out, leftchar * 16 + v \div 4))
          [] quad_pos = 3 ->
                B64Scan(text, i + 1, 0, 0, 0, Append(out, leftchar * 64 + v))

B64Decode(text) == B64Scan(text, 1, 0, 0, 0, << >>)

\* ------------------------------------------------------------ data values
ByteVals == {0, 137, 255}

RECURSIVE BytesOfLen(_)
BytesOfLen(n) ==
    IF n = 0 THEN {<< >>}
    ELSE {Append(s, b) : s \in BytesOfLen(n - 1), b \in ByteVals}

\* Source images of the request-builder specification: 1..MaxLen bytes.
SourceBytes == UNION {BytesOfLen(n) : n \in 1..MaxLen}

\* PIL's Image.open identifies an image by its leading signature byte
\* (0x89 for PNG, 0xFF for JPEG).
IsImage(bytes) == Len(bytes) > 0 /\ bytes[1] \in {137, 255}

\* The image the model returns is re-encoded by PIL when it is saved as .jpg.
Jpeg(bytes) == [format |-> "JPEG", image |-> bytes]

\* ---------------------------------------------------------- form inputs
Seeds == {MinSeed, 42, MaxSeed}
CfgScales == {MinCfgTenths, DefaultCfgTenths, MaxCfgTenths}
Modes == {"DEFAULT", "PRECISE"}
MaskPrompts == {"Cheeseburger", "Dog"}
PositivePrompts == {"A red checkered empty blanket", ""}
NegativePrompts == {"people, humans, animals"}

\* What the session of Spec submits: the form's defaults, two seeds.
SessionSeeds == {42, DefaultSeed}
SessionBytes == {<<255, 0>>, <<137>>}
Widths == {800, MaxDim, MaxDim + 1}
Heights == {600, MaxDim, MaxDim + 1}
UploadName == "burger.jpg"

NoImg ==
    [present |-> FALSE, readable |-> FALSE, name |-> "", bytes |-> << >>,
     width |-> 0, height |-> 0]

\* st.file_uploader: nothing, a file PIL cannot open, or an image.
Uploads ==
    {NoImg}
    \cup {[present |-> TRUE, readable |-> FALSE, name |-> UploadName,
           bytes |-> <<0>>, width |-> 0, height |-> 0]}
    \cup {[present |-> TRUE, readable |-> TRUE, name |-> UploadName,
           bytes |-> b, width |-> w, height |-> h] :
             b \in SessionBytes, w \in Widths, h \in Heights}

\* ------------------------------------------------------ remote responses
\* Decoded payloads the service may send: two images and one non-image,
\* of lengths 1, 2 and 3 (every padding of base64).
ResponseBytes == {<<255>>, <<137, 0>>, <<0, 255, 137>>}

\* First entries of "images": encodings of the payloads, one with a skipped
\* character, and two strings whose padding is wrong.
ImageTexts ==
    {B64Encode(b) : b \in ResponseBytes}
    \cup {<<"/", " ", "w", "=", "=">>, <<"/", "w", "=">>, <<"/">>}

DecoyText == B64Encode(<<255, 255>>)

ImageLists ==
    {<< >>} \cup {<<t>> : t \in ImageTexts} \cup {<<t, DecoyText>> : t \in ImageTexts}

ErrorTexts == {"Content blocked by policy", ""}

NoResponse ==
    [received |-> FALSE, imagesKey |-> "absent", images |-> << >>,
     errorKey |-> "absent", error |-> ""]

\* Bodies invoke_model may return: "images" absent or a list, "error"
\* absent, null or a string.
Responses ==
    {[received |-> TRUE, imagesKey |-> "absent", images |-> << >>,
      errorKey |-> k, error |-> ""] : k \in {"absent", "null"}}
    \cup {[received |-> TRUE, imagesKey |-> "absent", images |-> << >>,
           errorKey |-> "string", error |-> e] : e \in ErrorTexts}
    \cup {[received |-> TRUE, imagesKey |-> "list", images |-> l,
           errorKey |-> k, error |-> ""] : l \in ImageLists, k \in {"absent", "null"}}
    \cup {[received |-> TRUE, imagesKey |-> "list", images |-> l,
           errorKey |-> "string", error |-> e] : l \in ImageLists, e \in ErrorTexts}

\* response_body.get("error"): None unless the key holds a string.
ErrorIsNone(resp) == resp.errorKey # "string"

\* ------------------------------------------------------------ exceptions
NoExc == [type |-> "none", msg |-> "", origin |-> "none"]

Raise(type, msg, origin) == [type |-> type, msg |-> msg, origin |-> origin]

\* Failures of bedrock_runtime.invoke_model: botocore's ClientError (the
\* service answered with an error) and its other exceptions (no answer).
ClientErrors ==
    {Raise("ClientError", "Too many requests, please wait", "invoke_model")}
TransportErrors ==
    {Raise("EndpointConnectionError", "Could not connect to the endpoint URL",
           "invoke_model")}

\* ------------------------------------------------------- pure operations
Digits == <<"0", "1", "2", "3", "4", "5", "6", "7", "8", "9">>

\* str(n) of a natural number, as an f-string formats it.
RECURSIVE IntToStr(_)
IntToStr(n) ==
    IF n < 10 THEN Digits[n + 1]
    ELSE IntToStr(n \div 10) \o Digits[(n % 10) + 1]

SourceImagePath(name) == "./tmp/" \o name

\* Mutant: the seed is left out of the file name.
GeneratedImagePathNoSeed(seed_, epoch_time) ==
    "output/outpainting_" \o IntToStr(epoch_time) \o ".jpg"

GeneratedImagePath(seed_, epoch_time) ==
    "output/outpainting_" \o IntToStr(seed_) \o "_" \o IntToStr(epoch_time) \o ".jpg"

\* Mutant: the seed is reduced modulo the slider's maximum.
RequestBodyClampedSeed(source_bytes, mask, positive, negative, mode, cfg, seed_) ==
    [taskType |-> "OUTPAINTING",
     outPaintingParams |->
        [text |-> positive,
         negativeText |-> negative,
         image |-> B64Encode(source_bytes),
         maskPrompt |-> mask,
         outPaintingMode |-> mode],
     imageGenerationConfig |->
        [numberOfImages |-> NumberOfImages,
         cfgScale |-> cfg,
         seed |-> seed_ % MaxSeed]]

\* The dictionary json.dumps serialises into the request body.
RequestBody(source_bytes, mask, positive, negative, mode, cfg, seed_) ==
    [taskType |-> "OUTPAINTING",
     outPaintingParams |->
        [text |-> positive,
         negativeText |-> negative,
         image |-> B64Encode(source_bytes),
         maskPrompt |-> mask,
         outPaintingMode |-> mode],
     imageGenerationConfig |->
        [numberOfImages |-> NumberOfImages,
         cfgScale |-> cfg,
         seed |-> seed_]]

NoBody == [taskType |-> "none"]

\* Mutant: the "error" field is never looked at.
GenerateImageResultNoErrorCheck(resp) ==
    IF resp.imagesKey # "list" THEN
        [exc |-> Raise("TypeError", "'NoneType' object is not subscriptable",
                       "generate_image"),
         image_bytes |-> << >>]
    ELSE IF Len(resp.images) = 0 THEN
        [exc |-> Raise("IndexError", "list index out of range", "generate_image"),
         image_bytes |-> << >>]
    ELSE IF ~B64Decode(resp.images[1]).ok THEN
        [exc |-> Raise("binascii.Error", "Incorrect padding", "generate_image"),
         image_bytes |-> << >>]
    ELSE [exc |-> NoExc, image_bytes |-> B64Decode(resp.images[1]).bytes]

\* Mutant: the last entry of "images" is decoded instead of the first.
GenerateImageResultLastEntry(resp) ==
    IF resp.imagesKey # "list" THEN
        [exc |-> Raise("TypeError", "'NoneType' object is not subscriptable",
                       "generate_image"),
         image_bytes |-> << >>]
    ELSE IF Len(resp.images) = 0 THEN
        [exc |-> Raise("IndexError", "list index out of range", "generate_image"),
         image_bytes |-> << >>]
    ELSE IF ~B64Decode(resp.images[Len(resp.images)]).ok THEN
        [exc |-> Raise("binascii.Error", "Incorrect padding", "generate_image"),
         image_bytes |-> << >>]
    ELSE IF ~ErrorIsNone(resp) THEN
        [exc |-> Raise("ImageError",
                       "Image generation error. Error is " \o resp.error,
                       "generate_image"),
         image_bytes |-> << >>]
    ELSE [exc |-> NoExc, image_bytes |-> B64Decode(resp.images[Len(resp.images)]).bytes]

\* generate_image after invoke_model returned: what it returns or raises.
GenerateImageResult(resp) ==
    IF resp.imagesKey # "list" THEN
        [exc |-> Raise("TypeError", "'NoneType' object is not subscriptable",
                       "generate_image"),
         image_bytes |-> << >>]
    ELSE IF Len(resp.images) = 0 THEN
        [exc |-> Raise("IndexError", "list index out of range", "generate_image"),
         image_bytes |-> << >>]
    ELSE IF ~B64Decode(resp.images[1]).ok THEN
        [exc |-> Raise("binascii.Error", "Incorrect padding", "generate_image"),
         image_bytes |-> << >>]
    ELSE IF ~ErrorIsNone(resp) THEN
        [exc |-> Raise("ImageError",
                       "Image generation error. Error is " \o resp.error,
                       "generate_image"),
         image_bytes |-> << >>]
    ELSE [exc |-> NoExc, image_bytes |-> B64Decode(resp.images[1]).bytes]

\* The except clauses of prepare_outpainting_request_with_mask_prompt.
Caught(e) == e.type \in {"ClientError", "ImageError"}

\* Mutant: the width is not compared.
RemoteGuardNoWidth(sub, im, h, w) == sub /\ im.present /\ h <= MaxDim

\* Mutant: >= in place of >.
TooLargeGuardInclusive(sub, im, h, w) ==
    sub /\ im.present /\ (h >= MaxDim \/ w >= MaxDim)

\* The guards of main's three if statements.
RemoteGuard(sub, im, h, w) == sub /\ im.present /\ h <= MaxDim /\ w <= MaxDim
TooLargeGuard(sub, im, h, w) == sub /\ im.present /\ (h > MaxDim \/ w > MaxDim)
NoImageGuard(sub, im) == sub /\ ~im.present

TooLargeMessage ==
    "Please upload an image with height and width less than or equal to 1408 pixels."
NoImageMessage == "Please upload an image file."
FailedMessage == "Failed to get a valid response from the model."

StError(text) == [kind |-> "error", text |-> text, caption |-> ""]
StImage(path, caption) == [kind |-> "image", text |-> path, caption |-> caption]
StText(text) == [kind |-> "text", text |-> text, caption |-> ""]

\* display_response: the two images and the text naming the generated file.
DisplayResponse(source_path, generated_path) ==
    << StImage(source_path, "Source Image"),
       StImage(generated_path, "Generated Image"),
       StText("Generated image: " \o generated_path) >>

LogLine(level, msg) == [level |-> level, msg |-> msg]

WriteFile(dir, path, content) ==
    [p \in DOMAIN dir \cup {path} |-> IF p = path THEN content ELSE dir[p]]

EmptyDir == [p \in {} |-> << >>]

\* ------------------------------------------------------------------ state
VARIABLES
    run,                  \* script runs started in this session
    pc,                   \* where the current run stands
    now,                  \* last value time.time() returned, in seconds
    tmp_dir,              \* ./tmp: path -> bytes
    output_dir,           \* output/: path -> saved image
    saved,                \* the successful saves of the session, in order
    img,                  \* the uploaded file
    image_width, image_height,
    source_image_path,
    mask_prompt, positive_prompt, negative_prompt,
    outpainting_mode, cfg_scale, seed,
    submitted,
    body,                 \* the request body
    response,             \* the response body of invoke_model
    image_bytes,          \* what generate_image returned
    exc,                  \* the exception being raised inside prepare_...
    uncaught,             \* the exception that left main
    generated_image_path, \* what prepare_... returned ("" is None)
    calls,                \* invoke_model calls of this run
    branches,             \* which of main's three branches ran
    log,                  \* log lines of this run
    ui                    \* elements rendered after the form in this run

vars ==
    << run, pc, now, tmp_dir, output_dir, saved, img, image_width, image_height,
       source_image_path, mask_prompt, positive_prompt, negative_prompt,
       outpainting_mode, cfg_scale, seed, submitted, body, response,
       image_bytes, exc, uncaught, generated_image_path, calls, branches,
       log, ui >>

disk == << tmp_dir, output_dir, saved >>
form == << img, image_width, image_height, source_image_path, mask_prompt,
           positive_prompt, negative_prompt, outpainting_mode, cfg_scale, seed,
           submitted >>
call == << body, response, image_bytes, exc, generated_image_path, calls >>

None == ""

\* A run before main has read the form.
FreshRun ==
    /\ pc = "main"
    /\ img = NoImg
    /\ image_width = 0
    /\ image_height = 0
    /\ source_image_path = None
    /\ mask_prompt = "Cheeseburger"
    /\ positive_prompt = "A red checkered empty blanket"
    /\ negative_prompt = "people, humans, animals"
    /\ outpainting_mode = "PRECISE"
    /\ cfg_scale = DefaultCfgTenths
    /\ seed = DefaultSeed
    /\ submitted = FALSE
    /\ body = NoBody
    /\ response = NoResponse
    /\ image_bytes = << >>
    /\ exc = NoExc
    /\ uncaught = NoExc
    /\ generated_image_path = None
    /\ calls = 0
    /\ branches = {}
    /\ log = << >>
    /\ ui = << >>

Init ==
    /\ run = 1
    /\ now = Epoch0
    /\ tmp_dir = EmptyDir
    /\ output_dir = EmptyDir
    /\ saved = << >>
    /\ FreshRun

\* ---------------------------------------------------------------- actions
\* main up to Image.open(img) when PIL cannot open the upload: the script
\* run ends there with the exception, before the submit button is read.
MainAbort ==
    /\ pc = "main"
    /\ \E up \in Uploads :
          /\ up.present /\ ~up.readable
          /\ img' = up
    /\ uncaught' = Raise("UnidentifiedImageError", "cannot identify image file", "main")
    /\ pc' = "done"
    /\ UNCHANGED << run, now, disk, image_width, image_height, source_image_path,
                    mask_prompt, positive_prompt, negative_prompt, outpainting_mode,
                    cfg_scale, seed, submitted, call, branches, log, ui >>

\* main up to st.form_submit_button: the widgets are read, the upload is
\* measured and copied to ./tmp/<name>.
MainForm ==
    /\ pc = "main"
    /\ \E up \in Uploads, s \in SessionSeeds, click \in BOOLEAN :
          /\ up.present => up.readable
          /\ img' = up
          /\ image_width' = IF up.present THEN up.width ELSE 0
          /\ image_height' = IF up.present THEN up.height ELSE 0
          /\ source_image_path' =
                IF up.present THEN SourceImagePath(up.name) ELSE source_image_path
          /\ tmp_dir' =
                IF up.present
                THEN WriteFile(tmp_dir, SourceImagePath(up.name), up.bytes)
                ELSE tmp_dir
          /\ seed' = s
          /\ submitted' = click
    /\ pc' = "if_remote"
    /\ UNCHANGED << run, now, output_dir, saved, mask_prompt, positive_prompt,
                    negative_prompt, outpainting_mode, cfg_scale, call, uncaught,
                    branches, log, ui >>

\* if submitted and img is not None and image_height <= 1408 and image_width <= 1408
IfRemote ==
    /\ pc = "if_remote"
    /\ IF RemoteGuard(submitted, img, image_height, image_width)
       THEN /\ branches' = branches \cup {"remote"}
            /\ pc' = "prepare"
       ELSE /\ branches' = branches
            /\ pc' = "if_too_large"
    /\ UNCHANGED << run, now, disk, form, call, uncaught, log, ui >>

\* prepare_...: the source file is read, encoded and put into the body.
BuildBody ==
    /\ pc = "prepare"
    /\ body' = RequestBody(tmp_dir[source_image_path], mask_prompt, positive_prompt,
                           negative_prompt, outpainting_mode, cfg_scale, seed)
    /\ pc' = "generate_image"
    /\ UNCHANGED << run, now, disk, form, response, image_bytes, exc,
                    generated_image_path, calls, uncaught, branches, log, ui >>

GeneratingLine ==
    LogLine("INFO", "Generating image with Amazon Titan Image Generator G1 model "
                    \o MODEL_ID)

\* generate_image: invoke_model answers with a response body.
InvokeModelReturns ==
    /\ pc = "generate_image"
    /\ calls' = calls + 1
    /\ log' = Append(log, GeneratingLine)
    /\ \E r \in Responses : response' = r
    /\ pc' = "parse"
    /\ UNCHANGED << run, now, disk, form, body, image_bytes, exc,
                    generated_image_path, uncaught, branches, ui >>

\* generate_image: invoke_model raises.
InvokeModelRaises ==
    /\ pc = "generate_image"
    /\ calls' = calls + 1
    /\ log' = Append(log, GeneratingLine)
    /\ \E e \in ClientErrors \cup TransportErrors : exc' = e
    /\ pc' = "except"
    /\ UNCHANGED << run, now, disk, form, body, response, image_bytes,
                    generated_image_path, uncaught, branches, ui >>

\* generate_image from json.loads to its return or raise.
ParseResponse ==
    /\ pc = "parse"
    /\ LET r == GenerateImageResult(response) IN
         IF r.exc = NoExc
         THEN /\ image_bytes' = r.image_bytes
              /\ log' = Append(log, LogLine("INFO",
                    "Successfully generated image with Amazon Titan Image Generator G1 v2 model "
                    \o MODEL_ID))
              /\ exc' = exc
              /\ pc' = "save"
         ELSE /\ exc' = r.exc
              /\ pc' = "except"
              /\ UNCHANGED << image_bytes, log >>
    /\ UNCHANGED << run, now, disk, form, body, response, generated_image_path,
                    calls, uncaught, branches, ui >>

\* Image.open(io.BytesIO(image_bytes)) on bytes that are no image.
OpenImageFails ==
    /\ pc = "save"
    /\ ~IsImage(image_bytes)
    /\ exc' = Raise("UnidentifiedImageError", "cannot identify image file", "Image.open")
    /\ pc' = "except"
    /\ UNCHANGED << run, now, disk, form, body, response, image_bytes,
                    generated_image_path, calls, uncaught, branches, log, ui >>

\* The clock is read, the path is formatted, the image is saved and the
\* path returned.
SaveImage ==
    /\ pc = "save"
    /\ IsImage(image_bytes)
    /\ \E epoch_time \in now..(Epoch0 + MaxTicks) :
          LET path == GeneratedImagePath(seed, epoch_time) IN
          /\ now' = epoch_time
          /\ output_dir' = WriteFile(output_dir, path, Jpeg(image_bytes))
          /\ saved' = Append(saved, [run |-> run, seed |-> seed,
                                     epoch_time |-> epoch_time, path |-> path,
                                     content |-> Jpeg(image_bytes)])
          /\ log' = Append(log, LogLine("INFO", "Generated image saved to " \o path))
          /\ generated_image_path' = path
    /\ pc' = "returned"
    /\ UNCHANGED << run, tmp_dir, form, body, response, image_bytes, exc, calls,
                    uncaught, branches, ui >>

\* image.save raises (output/ is missing, the disk is full, the image's mode
\* has no JPEG form): nothing is kept under output/.
SaveImageFails ==
    /\ pc = "save"
    /\ IsImage(image_bytes)
    /\ \E epoch_time \in now..(Epoch0 + MaxTicks) : now' = epoch_time
    /\ exc' = Raise("OSError", "cannot write file", "image.save")
    /\ pc' = "except"
    /\ UNCHANGED << run, disk, form, body, response, image_bytes,
                    generated_image_path, calls, uncaught, branches, log, ui >>

\* Mutant: a client error sends the request again.
ExceptClientErrorRetry ==
    /\ pc = "except"
    /\ exc.type = "ClientError"
    /\ log' = Append(log, LogLine("ERROR", "A client error occurred: " \o exc.msg))
    /\ exc' = NoExc
    /\ pc' = "generate_image"
    /\ UNCHANGED << run, now, disk, form, body, response, image_bytes,
                    generated_image_path, calls, uncaught, branches, ui >>

\* except ClientError as err
ExceptClientError ==
    /\ pc = "except"
    /\ exc.type = "ClientError"
    /\ log' = Append(log, LogLine("ERROR", "A client error occurred: " \o exc.msg))
    /\ exc' = NoExc
    /\ generated_image_path' = None
    /\ pc' = "returned"
    /\ UNCHANGED << run, now, disk, form, body, response, image_bytes, calls,
                    uncaught, branches, ui >>

\* except ImageError as err
ExceptImageError ==
    /\ pc = "except"
    /\ exc.type = "ImageError"
    /\ log' = Append(log, LogLine("ERROR", "A image error occurred: " \o exc.msg))
    /\ exc' = NoExc
    /\ generated_image_path' = None
    /\ pc' = "returned"
    /\ UNCHANGED << run, now, disk, form, body, response, image_bytes, calls,
                    uncaught, branches, ui >>

\* No except clause matches: the exception leaves prepare_... and main.
Propagate ==
    /\ pc = "except"
    /\ ~Caught(exc)
    /\ uncaught' = exc
    /\ exc' = NoExc
    /\ pc' = "done"
    /\ UNCHANGED << run, now, disk, form, body, response, image_bytes,
                    generated_image_path, calls, branches, log, ui >>

\* Mutant: display_response is called whatever was returned.
AfterPrepareAlwaysDisplays ==
    /\ pc = "returned"
    /\ ui' = ui \o DisplayResponse(source_image_path, generated_image_path)
    /\ log' = log
    /\ pc' = "if_too_large"
    /\ UNCHANGED << run, now, disk, form, call, uncaught, branches >>

\* main after the call: display_response, or the "Failed ..." log line.
AfterPrepare ==
    /\ pc = "returned"
    /\ IF generated_image_path # None
       THEN /\ ui' = ui \o DisplayResponse(source_image_path, generated_image_path)
            /\ log' = log
       ELSE /\ log' = Append(log, LogLine("ERROR", FailedMessage))
            /\ ui' = ui
    /\ pc' = "if_too_large"
    /\ UNCHANGED << run, now, disk, form, call, uncaught, branches >>

\* if submitted and img is not None and (image_height > 1408 or image_width > 1408)
IfTooLarge ==
    /\ pc = "if_too_large"
    /\ IF TooLargeGuard(submitted, img, image_height, image_width)
       THEN /\ ui' = Append(ui, StError(TooLargeMessage))
            /\ branches' = branches \cup {"too_large"}
       ELSE UNCHANGED << ui, branches >>
    /\ pc' = "if_no_image"
    /\ UNCHANGED << run, now, disk, form, call, uncaught, log >>

\* if submitted and img is None
IfNoImage ==
    /\ pc = "if_no_image"
    /\ IF NoImageGuard(submitted, img)
       THEN /\ ui' = Append(ui, StError(NoImageMessage))
            /\ branches' = branches \cup {"no_image"}
       ELSE UNCHANGED << ui, branches >>
    /\ pc' = "done"
    /\ UNCHANGED << run, now, disk, form, call, uncaught, log >>

\* Streamlit runs the script again: the locals and the page start afresh,
\* the files and the clock stay.
Rerun ==
    /\ pc = "done"
    /\ run < MaxRuns
    /\ run' = run + 1
    /\ pc' = "main"
    /\ img' = NoImg
    /\ image_width' = 0
    /\ image_height' = 0
    /\ source_image_path' = None
    /\ seed' = DefaultSeed
    /\ submitted' = FALSE
    /\ body' = NoBody
    /\ response' = NoResponse
    /\ image_bytes' = << >>
    /\ exc' = NoExc
    /\ uncaught' = NoExc
    /\ generated_image_path' = None
    /\ calls' = 0
    /\ branches' = {}
    /\ log' = << >>
    /\ ui' = << >>
    /\ UNCHANGED << now, disk, mask_prompt, positive_prompt, negative_prompt,
                    outpainting_mode, cfg_scale >>

Next ==
    \/ MainAbort
    \/ MainForm
    \/ IfRemote
    \/ BuildBody
    \/ InvokeModelReturns
    \/ InvokeModelRaises
    \/ ParseResponse
    \/ OpenImageFails
    \/ SaveImage
    \/ SaveImageFails
    \/ ExceptClientError
    \/ ExceptImageError
    \/ Propagate
    \/ AfterPrepare
    \/ IfTooLarge
    \/ IfNoImage
    \/ Rerun

Spec == Init /\ [][Next]_vars

\* -------------------------------------------- the request builder alone
\* prepare_... is entered with any source file of 1..MaxLen bytes and any
\* widget values: main has validated an 800x600 upload and calls it.
InitPayload ==
    /\ run = 1
    /\ now = Epoch0
    /\ output_dir = EmptyDir
    /\ saved = << >>
    /\ pc = "prepare"
    /\ \E b \in SourceBytes :
          /\ img = [present |-> TRUE, readable |-> TRUE, name |-> UploadName,
                    bytes |-> b, width |-> 800, height |-> 600]
          /\ tmp_dir = WriteFile(EmptyDir, SourceImagePath(UploadName), b)
    /\ image_width = 800
    /\ image_height = 600
    /\ source_image_path = SourceImagePath(UploadName)
    /\ mask_prompt \in MaskPrompts
    /\ positive_prompt \in PositivePrompts
    /\ negative_prompt \in NegativePrompts
    /\ outpainting_mode \in Modes
    /\ cfg_scale \in CfgScales
    /\ seed \in Seeds
    /\ submitted = TRUE
    /\ body = NoBody
    /\ response = NoResponse
    /\ image_bytes = << >>
    /\ exc = NoExc
    /\ uncaught = NoExc
    /\ generated_image_path = None
    /\ calls = 0
    /\ branches = {"remote"}
    /\ log = << >>
    /\ ui = << >>

NextPayload == BuildBody

SpecPayload == InitPayload /\ [][NextPayload]_vars

\* ------------------------------------------------------ state predicates
Range(f) == {f[i] : i \in DOMAIN f}

Logged(level, msg) == LogLine(level, msg) \in Range(log)

ErrorsShown == {e \in Range(ui) : e.kind = "error"}

ResultShown == \E e \in Range(ui) : e.kind = "image" /\ e.caption = "Generated Image"

\* invoke_model was called and raised.
InvokeRaised == calls > 0 /\ ~response.received

\* The response carries a non-null "error".
ModelError == response.received /\ response.errorKey = "string"

\* This run has written under output/.
WroteThisRun == \E i \in DOMAIN saved : saved[i].run = run

\* generate_image is over: it returned or raised.
Parsed == response.received /\ pc # "parse"

InsidePrepare == pc \in {"prepare", "generate_image", "parse", "save", "except", "returned"}

\* ----------------------------------------------------------------- claims
\* C1: a submission with no image, or with an image wider or higher than
\* 1408 pixels, never reaches the remote call (no body is built, invoke_model
\* is not called) and ends with an st.error message; a submitted 1408x1408
\* image reaches invoke_model; a submitted 1409x1408 image does not.
C1_ValidationGate ==
    /\ (submitted /\ (~img.present \/ image_width > MaxDim \/ image_height > MaxDim))
          => /\ calls = 0
             /\ body = NoBody
             /\ ~InsidePrepare
             /\ (pc = "done" => ErrorsShown # {})
    /\ (submitted /\ img.present /\ image_width = 1408 /\ image_height = 1408
          /\ pc = "done")
          => calls = 1
    /\ (submitted /\ img.present /\ image_width = 1409 /\ image_height = 1408)
          => calls = 0

C1_Witness ==
    /\ pc = "done"
    /\ submitted
    /\ img.present
    /\ image_width = 1409
    /\ image_height = 1408
    /\ calls = 0
    /\ ui = << StError(TooLargeMessage) >>

\* C2: once generate_image is over on a response whose "error" is not null,
\* it has raised ImageError carrying that error, whether "images" is
\* present, absent or empty.
C2_ErrorFieldRaisesImageError ==
    (ModelError /\ pc \in {"save", "except"})
        => /\ pc = "except"
           /\ exc.type = "ImageError"
           /\ exc.msg = "Image generation error. Error is " \o response.error

\* C3: no failure of the remote call (invoke_model raising, or a response
\* with a non-null "error") leaves prepare_... as an exception.
C3_NoRemoteFailurePropagates ==
    ~(/\ uncaught # NoExc
      /\ \/ uncaught.origin = "invoke_model"
         \/ ModelError)

\* C4: when invoke_model raised or the response carries an error, the run
\* writes nothing under output/ and returns no path, and it ends without a
\* displayed result, with an error logged or an exception raised; a file is
\* written only on a response without error whose first image decodes to
\* an image, and output/ holds nothing but the files of successful saves.
C4_NoFileOnRemoteFailure ==
    /\ (InvokeRaised \/ ModelError)
          => /\ ~WroteThisRun
             /\ generated_image_path = None
             /\ (pc = "done" =>
                    /\ ~ResultShown
                    /\ \/ uncaught # NoExc
                       \/ \E l \in Range(log) : l.level = "ERROR")
    /\ WroteThisRun
          => /\ response.received
             /\ response.errorKey # "string"
             /\ response.imagesKey = "list"
             /\ Len(response.images) >= 1
             /\ B64Decode(response.images[1]).ok
             /\ IsImage(B64Decode(response.images[1]).bytes)
    /\ DOMAIN output_dir = {saved[i].path : i \in DOMAIN saved}

C4_Witness ==
    /\ pc = "done"
    /\ ModelError
    /\ response.images = << B64Encode(<<255>>) >>
    /\ output_dir = EmptyDir
    /\ generated_image_path = None
    /\ Logged("ERROR", FailedMessage)

\* C5: on a response whose "images" starts with the base64 encoding of some
\* bytes and whose "error" is absent or null, generate_image returns exactly
\* those bytes, whatever follows in "images".
C5_ReturnsDecodedFirstImage ==
    \A b \in ResponseBytes :
        (/\ Parsed
         /\ response.imagesKey = "list"
         /\ Len(response.images) >= 1
         /\ response.images[1] = B64Encode(b)
         /\ response.errorKey # "string")
        => /\ image_bytes = b
           /\ exc.origin # "generate_image"
           /\ uncaught.origin # "generate_image"

C5_Witness ==
    /\ pc = "save"
    /\ response.images = << B64Encode(<<137, 0>>), DecoyText >>
    /\ response.errorKey = "null"
    /\ image_bytes = <<137, 0>>

\* C6: the body prepare_... builds has taskType "OUTPAINTING", numberOfImages
\* 1, the seed and the guidance scale as given, the three prompts and the
\* mode in their fields, no other field, and an image that is base64 text
\* decoding to exactly the bytes of the source file.
C6_PayloadIsReference ==
    pc = "generate_image" =>
        /\ DOMAIN body = {"taskType", "outPaintingParams", "imageGenerationConfig"}
        /\ body.taskType = "OUTPAINTING"
        /\ DOMAIN body.outPaintingParams =
              {"text", "negativeText", "image", "maskPrompt", "outPaintingMode"}
        /\ body.outPaintingParams.text = positive_prompt
        /\ body.outPaintingParams.negativeText = negative_prompt
        /\ body.outPaintingParams.maskPrompt = mask_prompt
        /\ body.outPaintingParams.outPaintingMode = outpainting_mode
        /\ \A i \in DOMAIN body.outPaintingParams.image :
              \/ IsB64Char(body.outPaintingParams.image[i])
              \/ body.outPaintingParams.image[i] = B64Pad
        /\ Len(body.outPaintingParams.image) % 4 = 0
        /\ B64Decode(body.outPaintingParams.image)
              = [ok |-> TRUE, bytes |-> tmp_dir[source_image_path]]
        /\ DOMAIN body.imageGenerationConfig = {"numberOfImages", "cfgScale", "seed"}
        /\ body.imageGenerationConfig.numberOfImages = 1
        /\ body.imageGenerationConfig.cfgScale = cfg_scale
        /\ body.imageGenerationConfig.seed = seed

C6_Witness ==
    /\ pc = "generate_image"
    /\ seed = 2147483647
    /\ cfg_scale = 11
    /\ outpainting_mode = "DEFAULT"
    /\ mask_prompt = "Dog"
    /\ img.bytes = <<137, 255>>
    /\ body.outPaintingParams.image = <<"i", "f", "8", "=">>

\* C7: a run calls invoke_model at most once, and a run that called it ends
\* either with a path returned and the result displayed, no error logged and
\* no exception, or with no path, no result displayed and an error logged or
\* an exception raised.
C7_SingleCallOneOutcome ==
    /\ calls <= 1
    /\ (pc = "done" /\ calls = 1) =>
          \/ /\ generated_image_path # None
             /\ ResultShown
             /\ uncaught = NoExc
             /\ \A l \in Range(log) : l.level # "ERROR"
          \/ /\ generated_image_path = None
             /\ ~ResultShown
             /\ \/ uncaught # NoExc
                \/ Logged("ERROR", FailedMessage)

C7_Witness ==
    /\ pc = "done"
    /\ calls = 1
    /\ Logged("ERROR", "A client error occurred: Too many requests, please wait")
    /\ Logged("ERROR", FailedMessage)
    /\ generated_image_path = None

\* C8: two successful saves have the same path exactly when their seeds and
\* their epoch seconds are equal, seed 42 at second 1724112000 is saved as
\* output/outpainting_42_1724112000.jpg, and a path holds what the last save
\* to it wrote.
C8_PathBySeedAndSecond ==
    /\ \A i, j \in DOMAIN saved :
          (saved[i].path = saved[j].path)
             <=> (saved[i].seed = saved[j].seed
                    /\ saved[i].epoch_time = saved[j].epoch_time)
    /\ \A i \in DOMAIN saved :
          (saved[i].seed = 42 /\ saved[i].epoch_time = 1724112000)
             => saved[i].path = "output/outpainting_42_1724112000.jpg"
    /\ \A i \in DOMAIN saved :
          (\A j \in DOMAIN saved : j > i => saved[j].path # saved[i].path)
             => /\ saved[i].path \in DOMAIN output_dir
                /\ output_dir[saved[i].path] = saved[i].content

C8_Witness ==
    /\ Len(saved) = 2
    /\ saved[1].path = saved[2].path
    /\ saved[1].content # saved[2].content
    /\ output_dir[saved[1].path] = saved[2].content

\* C9: in a run whose form was submitted at most one of main's three branches
\* runs, and at its end exactly one has: the remote call for an image within
\* 1408x1408, the size error for a larger image, the upload error for no
\* image; in a run whose form was not submitted none runs.
C9_ExactlyOneBranch ==
    /\ Cardinality(branches) <= 1
    /\ ~submitted => (branches = {} /\ ErrorsShown = {} /\ calls = 0)
    /\ (submitted /\ pc = "done") =>
          /\ Cardinality(branches) = 1
          /\ "remote" \in branches
                <=> (img.present /\ image_width <= 1408 /\ image_height <= 1408)
          /\ "too_large" \in branches
                <=> (img.present /\ (image_width > 1408 \/ image_height > 1408))
          /\ "no_image" \in branches <=> ~img.present
          /\ "remote" \in branches <=> calls = 1
          /\ "too_large" \in branches <=> StError(TooLargeMessage) \in Range(ui)
          /\ "no_image" \in branches <=> StError(NoImageMessage) \in Range(ui)

C9_Witness ==
    /\ pc = "done"
    /\ submitted
    /\ ~img.present
    /\ branches = {"no_image"}
    /\ ui = << StError(NoImageMessage) >>

\* C10: the result is displayed only for a returned path, a returned path
\* names a file under output/ holding the generated image, and after a
\* caught ClientError or ImageError no path is returned, main logs
\* "Failed to get a valid response from the model." and the page shows
\* neither the result nor an st.error message.
C10_DisplayOnlyAfterSave ==
    /\ ResultShown =>
          /\ generated_image_path # None
          /\ ui = DisplayResponse(source_image_path, generated_image_path)
    /\ generated_image_path # None =>
          /\ generated_image_path \in DOMAIN output_dir
          /\ output_dir[generated_image_path] = Jpeg(image_bytes)
          /\ WroteThisRun
    /\ (\E l \in Range(log) :
            l.level = "ERROR" /\ l.msg # FailedMessage)
          => /\ generated_image_path = None
             /\ ui = << >>
             /\ (pc \in {"if_too_large", "if_no_image", "done"}
                    => Logged("ERROR", FailedMessage))

C10_Witness ==
    /\ pc = "done"
    /\ Logged("ERROR", "A image error occurred: Image generation error. Error is Content blocked by policy")
    /\ Logged("ERROR", FailedMessage)
    /\ ui = << >>
    /\ uncaught = NoExc
====
